---- MODULE Spec2Model ----
(***************************************************************************)
(* Model of the OAuth2 relay server of src/main.py: three in-memory        *)
(* dictionaries (session_store, oauth_handlers, state_mapping) and the     *)
(* HTTP handlers that read and write them.  The handlers are coroutines    *)
(* without any await, run by one event loop (workers=1), so no handler     *)
(* runs while another one does.  The one place where a handler waits is    *)
(* the blocking fetch_token call of callback: the model has a state for    *)
(* it, in which the event loop is blocked and only the return of           *)
(* fetch_token can happen.                                                 *)
(***************************************************************************)
EXTENDS Integers, Sequences, FiniteSets, TLC

\* ---------------------------------------------------------------- bounds
\* Number of OAuth handlers (authorised generate_url calls) a run creates.
MaxHandlers == 2

\* ------------------------------------------------------------- constants
\* Python's None, for absent query parameters and missed lookups.
None == "None"

\* The configured shared secret.
INTERNAL_API_KEY == "secret"

\* An empty token object: the only falsy value a token dict can take.
EmptyToken == "{}"

\* ------------------------------------------------------------ input sets
ApiKeys == {INTERNAL_API_KEY, "wrong"}
Identities == {"u1", "u2"}
Codes == {None, "", "XYZ"}
ErrorParams == {None, "access_denied"}
Tokens == {EmptyToken, "T1", "T2"}
ExchangeErrors == {"invalid_grant"}

\* The state values the adapter generates, one per handler, never repeated
\* (tweepy draws a fresh random state for every handler), and their repr()
\* as str(KeyError(state)) prints them.
StateNames == <<"s1", "s2", "s3", "s4", "s5", "s6">>
StateReprs == <<"'s1'", "'s2'", "'s3'", "'s4'", "'s5'", "'s6'">>
IssuableStates == {StateNames[i] : i \in 1..MaxHandlers}
CallbackStates == {None, ""} \cup IssuableStates

\* What the adapter's authorization URL carries: a state, an empty state
\* value, or no state parameter at all.
UrlShapes == {"state", "blank", "missing"}

\* What fetch_token does: returns a token or raises.
ExchangeOutcomes ==
    {[ok |-> TRUE, token |-> t, msg |-> None] : t \in Tokens}
        \cup {[ok |-> FALSE, token |-> None, msg |-> m] : m \in ExchangeErrors}

\* Paths the application registers a handler for.
Routes == {"/", "/generate_url", "/callback", "/get_session", "/debug/states"}
UnroutedPaths == {"/delete_session"}

\* ------------------------------------------------------------- the state
VARIABLES
    session_store,    \* identity -> token
    oauth_handlers,   \* twitter state -> <<handler, identity>>
    state_mapping,    \* twitter state -> identity
    nHandlers,        \* handlers created so far (the last handler's id)
    req,              \* the last request
    resp,             \* the response to it
    exch,             \* the adapter calls the last request made
    issued,           \* twitter state -> identity a URL with it was returned to
    removals,         \* twitter state -> times its pending entry was deleted
    fetching,         \* the callback in req is inside its fetch_token call
    fetches           \* twitter state -> fetch_token calls made for it (up to 2)

vars == <<session_store, oauth_handlers, state_mapping, nHandlers,
          req, resp, exch, issued, removals, fetching, fetches>>

\* ---------------------------------------------------------- dictionaries
EmptyDict == [k \in {} |-> None]

\* d[k] = v
DictSet(d, k, v) == [x \in (DOMAIN d) \cup {k} |-> IF x = k THEN v ELSE d[x]]

\* Mutant: the deletion is lost.
DictDel_lost(d, k) == d

\* del d[k], for a key that is present
DictDel(d, k) == [x \in (DOMAIN d) \ {k} |-> d[x]]

\* Python truthiness of an optional string (None and "" are falsy).
Truthy(s) == s # None /\ s # ""

\* Python truthiness of session_store.get(state): None and {} are falsy.
TokenTruthy(ss, ident) == ident \in DOMAIN ss /\ ss[ident] # EmptyToken

\* ------------------------------------------------------------ the adapter
\* Mutant: the adapter puts the same state into every URL.
get_authorization_url_same_state(h, shape) ==
    <<<<"response_type", "code">>>>
        \o (CASE shape = "state" -> <<<<"state", StateNames[1]>>>>
              [] shape = "blank" -> <<<<"state", "">>>>
              [] OTHER -> <<>>)
        \o <<<<"code_challenge_method", "S256">>>>

\* get_authorization_url of handler h: the query string of the URL.
get_authorization_url(h, shape) ==
    <<<<"response_type", "code">>>>
        \o (CASE shape = "state" -> <<<<"state", StateNames[h]>>>>
              [] shape = "blank" -> <<<<"state", "">>>>
              [] OTHER -> <<>>)
        \o <<<<"code_challenge_method", "S256">>>>

\* urllib.parse.parse_qs(query).get(name, [None])[0]: the first non-blank
\* value of the parameter (parse_qs drops blank values).
ParseQsFirst(query, name) ==
    LET hits == {i \in 1..Len(query) : query[i][1] = name /\ query[i][2] # ""}
    IN IF hits = {} THEN None
       ELSE query[CHOOSE i \in hits : \A j \in hits : i <= j][2]

\* ------------------------------------------------------------- responses
NoUrl == <<>>
NoDebug == <<>>

Response(http, kind, val) ==
    [http |-> http, kind |-> kind, val |-> val, token |-> None, n |-> 0,
     url |-> NoUrl, dbg |-> NoDebug]

Request(op, ident, key, code, tstate, error) ==
    [op |-> op, ident |-> ident, key |-> key, code |-> code,
     tstate |-> tstate, error |-> error]

NoExchange == [url |-> FALSE, fetch |-> FALSE, handler |-> 0,
               ok |-> FALSE, token |-> None, authurl |-> NoUrl]

\* The response of a request that has not been answered yet.
NoResponse == Response(0, "none", None)

Unauthorized == Response(403, "detail", "Unauthorized")

NotFoundMsg == "Session expired or invalid state. Available states: "

\* -------------------------------------------------------------------- Init
Init ==
    /\ session_store = EmptyDict
    /\ oauth_handlers = EmptyDict
    /\ state_mapping = EmptyDict
    /\ nHandlers = 0
    /\ req = Request("start", None, None, None, None, None)
    /\ resp = NoResponse
    /\ exch = NoExchange
    /\ issued = EmptyDict
    /\ removals = [s \in IssuableStates |-> 0]
    /\ fetching = FALSE
    /\ fetches = [s \in IssuableStates |-> 0]

\* GET /
Root ==
    /\ ~fetching
    /\ req' = Request("root", None, None, None, None, None)
    /\ resp' = Response(200, "status", "running")
    /\ exch' = NoExchange
    /\ UNCHANGED <<session_store, oauth_handlers, state_mapping, nHandlers,
                   issued, removals, fetching, fetches>>

\* Ghost bookkeeping: count the pending entries a step deleted.
CountRemovals(old, new) ==
    [s \in IssuableStates |->
        removals[s] + (IF s \in (DOMAIN old) \ (DOMAIN new) THEN 1 ELSE 0)]

\* Mutant: the state is stored without being checked.
generate_state_check_skipped(twitter_state) == TRUE

\* generate_auth_url, line 60: the URL must carry a state.
generate_state_check(twitter_state) == Truthy(twitter_state)

\* Mutant: the mapping is stored the wrong way round.
store_mapping_reversed(mapping, twitter_state, state) ==
    DictSet(mapping, state, twitter_state)

\* generate_auth_url, line 62: state_mapping[twitter_state] = state
store_mapping(mapping, twitter_state, state) ==
    DictSet(mapping, twitter_state, state)

\* Mutant: every entry holds the first handler instead of its own.
handler_entry_shared(oauth2_handler, state) == <<1, state>>

\* generate_auth_url, line 63: the tuple stored in oauth_handlers.
handler_entry(oauth2_handler, state) == <<oauth2_handler, state>>

\* GET /generate_url?state=ident&api_key=key
generate_auth_url(ident, key, shape) ==
    /\ ~fetching
    /\ req' = Request("generate_url", ident, key, None, None, None)
    /\ IF key # INTERNAL_API_KEY
       THEN /\ resp' = Unauthorized
            /\ exch' = NoExchange
            /\ UNCHANGED <<session_store, oauth_handlers, state_mapping,
                           nHandlers, issued, removals, fetching, fetches>>
       ELSE /\ nHandlers < MaxHandlers
            /\ LET oauth2_handler == nHandlers + 1
                   authorization_url == get_authorization_url(oauth2_handler, shape)
                   twitter_state == ParseQsFirst(authorization_url, "state")
               IN /\ nHandlers' = oauth2_handler
                  /\ exch' = [NoExchange EXCEPT !.url = TRUE,
                                                !.handler = oauth2_handler,
                                                !.authurl = authorization_url]
                  /\ IF generate_state_check(twitter_state)
                     THEN /\ state_mapping' =
                                store_mapping(state_mapping, twitter_state, ident)
                          /\ oauth_handlers' =
                                DictSet(oauth_handlers, twitter_state,
                                        handler_entry(oauth2_handler, ident))
                          /\ resp' = [Response(200, "url", None)
                                        EXCEPT !.url = authorization_url]
                          /\ issued' = DictSet(issued, twitter_state, ident)
                     ELSE /\ resp' = Response(500, "detail",
                                        "Failed to generate authorization URL")
                          /\ UNCHANGED <<state_mapping, oauth_handlers, issued>>
                  /\ UNCHANGED <<session_store, removals, fetching, fetches>>

\* Mutant: the provider-error check is skipped.
callback_error_check_skipped(error) == FALSE

\* callback, line 85: a provider-reported error ends the request.
callback_error_check(error) == Truthy(error)

\* Mutant: only the code is required.
callback_missing_code_only(code, twitter_state) == ~Truthy(code)

\* callback, line 88: code and state are both required.
callback_missing(code, twitter_state) ==
    ~Truthy(code) \/ ~Truthy(twitter_state)

\* Mutant: oauth_handlers[twitter_state] instead of .get: the miss raises an
\* unhandled KeyError.
callback_no_handler_raises(handlers) ==
    Response(500, "detail", "Internal Server Error")

\* callback, lines 92-96: oauth_handlers.get missed.
callback_no_handler(handlers) ==
    [Response(200, "error", NotFoundMsg)
        EXCEPT !.n = Cardinality(DOMAIN handlers)]

\* Mutant: the token is stored for every identity, not for the entry's own.
callback_store_token_all_users(store, user_state, outcome) ==
    IF outcome.ok
    THEN [i \in (DOMAIN store) \cup Identities |-> outcome.token]
    ELSE store

\* Mutant: the session is written whether or not fetch_token returned a token.
callback_store_token_always(store, user_state, outcome) ==
    DictSet(store, user_state, outcome.token)

\* callback, lines 104-109: session_store after the try block; a raising
\* fetch_token skips the assignment.
callback_store_token(store, user_state, outcome) ==
    IF outcome.ok THEN DictSet(store, user_state, outcome.token) ELSE store

\* Mutant: the except block does not clean up.
callback_except_no_cleanup(d, twitter_state) == d

\* callback, lines 119-122: the guarded deletions of the except block.
callback_except_cleanup(d, twitter_state) ==
    IF twitter_state \in DOMAIN d THEN DictDel(d, twitter_state) ELSE d

\* str(KeyError(twitter_state))
KeyErrorStr(twitter_state) ==
    StateReprs[CHOOSE i \in 1..Len(StateNames) : StateNames[i] = twitter_state]

\* Ghost bookkeeping: count the fetch_token calls made for a state.
CountFetch(twitter_state) ==
    [s \in IssuableStates |->
        IF s = twitter_state /\ fetches[s] < 2 THEN fetches[s] + 1
        ELSE fetches[s]]

\* GET /callback?code=..&state=..&error=..  The handler up to its return,
\* or up to its call of fetch_token (lines 73-104).
callback(code, twitter_state, error) ==
    /\ ~fetching
    /\ req' = Request("callback", None, None, code, twitter_state, error)
    /\ exch' = NoExchange
    /\ UNCHANGED <<session_store, oauth_handlers, state_mapping, nHandlers,
                   issued, removals>>
    /\ IF callback_error_check(error)
       THEN /\ resp' = Response(200, "error", error)
            /\ UNCHANGED <<fetching, fetches>>
       ELSE IF callback_missing(code, twitter_state)
       THEN /\ resp' = Response(200, "error", "Missing code or state")
            /\ UNCHANGED <<fetching, fetches>>
       ELSE IF twitter_state \notin DOMAIN oauth_handlers
       THEN /\ resp' = callback_no_handler(oauth_handlers)
            /\ UNCHANGED <<fetching, fetches>>
       ELSE /\ resp' = NoResponse
            /\ fetching' = TRUE
            /\ fetches' = CountFetch(twitter_state)

\* The blocking fetch_token call of the callback in req returns a token or
\* raises, and the handler runs to its return (lines 104-123).
fetch_token_returns ==
    /\ fetching
    /\ fetching' = FALSE
    /\ UNCHANGED <<req, nHandlers, issued, fetches>>
    /\ \E outcome \in ExchangeOutcomes :
            LET twitter_state == req.tstate
                oauth2_handler == oauth_handlers[twitter_state][1]
                user_state == oauth_handlers[twitter_state][2]
            IN /\ exch' = [NoExchange EXCEPT !.fetch = TRUE,
                                             !.handler = oauth2_handler,
                                             !.ok = outcome.ok,
                                             !.token = outcome.token]
               /\ session_store' =
                      callback_store_token(session_store, user_state, outcome)
               /\ IF outcome.ok /\ twitter_state \in DOMAIN state_mapping
                  THEN \* lines 109-115
                       /\ oauth_handlers' = DictDel(oauth_handlers, twitter_state)
                       /\ state_mapping' = DictDel(state_mapping, twitter_state)
                       /\ resp' = Response(200, "message",
                            "Login successful! You can close this window and return to the bot.")
                  ELSE IF outcome.ok
                  THEN \* del state_mapping[twitter_state] raises KeyError
                       /\ oauth_handlers' =
                            callback_except_cleanup(
                                DictDel(oauth_handlers, twitter_state), twitter_state)
                       /\ state_mapping' =
                            callback_except_cleanup(state_mapping, twitter_state)
                       /\ resp' = Response(200, "error", KeyErrorStr(twitter_state))
                  ELSE \* fetch_token raised
                       /\ oauth_handlers' =
                            callback_except_cleanup(oauth_handlers, twitter_state)
                       /\ state_mapping' =
                            callback_except_cleanup(state_mapping, twitter_state)
                       /\ resp' = Response(200, "error", outcome.msg)
               /\ removals' = CountRemovals(oauth_handlers, oauth_handlers')

\* GET /get_session?state=ident&api_key=key
get_session(ident, key) ==
    /\ ~fetching
    /\ req' = Request("get_session", ident, key, None, None, None)
    /\ exch' = NoExchange
    /\ resp' = IF key # INTERNAL_API_KEY THEN Unauthorized
               ELSE IF ~TokenTruthy(session_store, ident)
               THEN Response(200, "status", "pending")
               ELSE [Response(200, "status", "ready")
                        EXCEPT !.token = session_store[ident]]
    /\ UNCHANGED <<session_store, oauth_handlers, state_mapping, nHandlers,
                   issued, removals, fetching, fetches>>

\* GET /debug/states?api_key=key
debug_states(key) ==
    /\ ~fetching
    /\ req' = Request("debug_states", None, key, None, None, None)
    /\ exch' = NoExchange
    /\ resp' = IF key # INTERNAL_API_KEY THEN Unauthorized
               ELSE [Response(200, "debug", None)
                        EXCEPT !.dbg = <<DOMAIN oauth_handlers, state_mapping,
                                         DOMAIN session_store>>]
    /\ UNCHANGED <<session_store, oauth_handlers, state_mapping, nHandlers,
                   issued, removals, fetching, fetches>>

\* A GET for a path without a registered handler: the framework answers 404
\* whatever the parameters are.
not_routed(path, ident, key) ==
    /\ path \notin Routes
    /\ ~fetching
    /\ req' = Request(path, ident, key, None, None, None)
    /\ exch' = NoExchange
    /\ resp' = Response(404, "detail", "Not Found")
    /\ UNCHANGED <<session_store, oauth_handlers, state_mapping, nHandlers,
                   issued, removals, fetching, fetches>>

Next ==
    \/ Root
    \/ \E ident \in Identities, key \in ApiKeys, shape \in UrlShapes :
            generate_auth_url(ident, key, shape)
    \/ \E code \in Codes, st \in CallbackStates, error \in ErrorParams :
            callback(code, st, error)
    \/ fetch_token_returns
    \/ \E ident \in Identities, key \in ApiKeys : get_session(ident, key)
    \/ \E key \in ApiKeys : debug_states(key)
    \/ \E path \in UnroutedPaths, ident \in Identities, key \in ApiKeys :
            not_routed(path, ident, key)

Spec == Init /\ [][Next]_vars

\* ------------------------------------------------------------ the claims
Authorized(r) == r.key = INTERNAL_API_KEY

\* The last request was a callback that got as far as calling fetch_token.
Exchanged == req.op = "callback" /\ exch.fetch

IsNotFound(r) == r.http = 200 /\ r.kind = "error" /\ r.val = NotFoundMsg

\* C1: when a callback with the state S of a URL returned to identity I has
\* exchanged the code for token T, a get_session(I) with the correct key
\* that follows it returns status ready with exactly T.
C1_ReadyWithExchangedToken ==
    [][(/\ Exchanged /\ exch.ok
        /\ resp.kind = "message"
        /\ req.tstate \in DOMAIN issued
        /\ req'.op = "get_session"
        /\ Authorized(req')
        /\ req'.ident = issued[req.tstate])
       => (/\ resp'.http = 200
           /\ resp'.kind = "status"
           /\ resp'.val = "ready"
           /\ resp'.token = exch.token)]_vars

\* C2: the pending table never holds two entries of the same identity.
C2_OnePendingPerIdentity ==
    \A s1, s2 \in DOMAIN oauth_handlers :
        oauth_handlers[s1][2] = oauth_handlers[s2][2] => s1 = s2

\* C3: a get_session that returned ready has deleted the session record, so
\* that the next get_session of that identity returns pending.
C3_ConsumingRead ==
    (req.op = "get_session" /\ resp.kind = "status" /\ resp.val = "ready")
        => req.ident \notin DOMAIN session_store

\* C4: a callback that called fetch_token leaves no pending entry under its
\* state, whether fetch_token returned or raised; no entry is deleted twice;
\* a later callback that presents the state again (with a code, as the
\* first one did) finds nothing, exchanges nothing and returns NotFound.
C4_SingleUse ==
    /\ \A s \in IssuableStates :
          /\ removals[s] <= 1
          /\ removals[s] = 1 =>
                s \notin DOMAIN oauth_handlers /\ s \notin DOMAIN state_mapping
    /\ Exchanged => removals[req.tstate] = 1
    /\ (/\ req.op = "callback"
        /\ ~Truthy(req.error) /\ Truthy(req.code)
        /\ req.tstate \in IssuableStates
        /\ ~exch.fetch)
       => (removals[req.tstate] = 1 => IsNotFound(resp))

\* A callback replayed with a state whose entry a failed exchange consumed.
C4_Witness ==
    /\ req.op = "callback" /\ ~exch.fetch /\ IsNotFound(resp)
    /\ req.tstate \in IssuableStates
    /\ removals[req.tstate] = 1
    /\ issued[req.tstate] \notin DOMAIN session_store

\* C5: a callback with an error parameter and a state S returns the error
\* and leaves no pending entry under S.
C5_ErrorCallbackPurges ==
    (req.op = "callback" /\ Truthy(req.error))
        => (/\ resp.kind = "error" /\ resp.val = req.error
            /\ req.tstate \notin DOMAIN oauth_handlers
            /\ req.tstate \notin DOMAIN state_mapping)

\* C6: a callback with a code and a state (and no error parameter) whose
\* state is not a key of oauth_handlers returns the NotFound body and
\* changes none of the three tables.
C6_UnknownStateNotFound ==
    [][(/\ req'.op = "callback"
        /\ ~Truthy(req'.error)
        /\ Truthy(req'.code) /\ Truthy(req'.tstate)
        /\ req'.tstate \notin DOMAIN oauth_handlers)
       => (/\ IsNotFound(resp')
           /\ resp'.n = Cardinality(DOMAIN oauth_handlers)
           /\ ~exch'.fetch
           /\ oauth_handlers' = oauth_handlers
           /\ state_mapping' = state_mapping
           /\ session_store' = session_store)]_vars

\* NotFound for a state that was issued and consumed, while another entry
\* is pending and a session is stored.
C6_Witness ==
    /\ req.op = "callback" /\ IsNotFound(resp)
    /\ req.tstate \in DOMAIN issued
    /\ oauth_handlers # EmptyDict
    /\ session_store # EmptyDict

\* C7: when fetch_token raises, the callback returns an error body with the
\* exception's text and the session table is what it was.
C7_FailedExchangeKeepsSessions ==
    [][(req'.op = "callback" /\ exch'.fetch /\ ~exch'.ok)
       => (/\ resp'.http = 200 /\ resp'.kind = "error"
           /\ resp'.val \in ExchangeErrors
           /\ session_store' = session_store)]_vars

\* A failed exchange for an identity that already has a stored session.
C7_Witness ==
    /\ Exchanged /\ ~exch.ok
    /\ req.tstate \in DOMAIN issued
    /\ issued[req.tstate] \in DOMAIN session_store

\* C8: a callback with an error parameter leaves the session table as it
\* was, whatever its code and state are.
C8_ErrorCallbackKeepsSessions ==
    [][(req'.op = "callback" /\ Truthy(req'.error))
       => (session_store' = session_store /\ ~exch'.fetch)]_vars

\* An error callback whose code is given and whose state has a pending entry.
C8_Witness ==
    /\ req.op = "callback" /\ Truthy(req.error) /\ Truthy(req.code)
    /\ req.tstate \in DOMAIN oauth_handlers
    /\ resp.kind = "error" /\ resp.val = req.error

\* C9: generate_url, get_session, delete_session and debug/states answer a
\* wrong key with 403 Unauthorized, change no table and call no adapter.
C9_WrongKeyRejected ==
    [][(/\ req'.op \in {"generate_url", "get_session", "/delete_session",
                        "debug_states"}
        /\ ~Authorized(req'))
       => (/\ resp' = Unauthorized
           /\ exch' = NoExchange
           /\ oauth_handlers' = oauth_handlers
           /\ state_mapping' = state_mapping
           /\ session_store' = session_store)]_vars

\* C10: delete_session(I) with the correct key reports success and leaves
\* no session record of I.
C10_DeleteSession ==
    (req.op = "/delete_session" /\ Authorized(req))
        => (/\ resp.http = 200 /\ resp.kind = "status" /\ resp.val = "deleted"
            /\ req.ident \notin DOMAIN session_store)

\* The three tables are what they were.
TablesUnchanged ==
    /\ oauth_handlers' = oauth_handlers
    /\ state_mapping' = state_mapping
    /\ session_store' = session_store

\* C11: a generate_url that returns a URL adds exactly one pending entry,
\* under a state no other entry has, bound to its own handler and identity,
\* and leaves every other entry as it was; so calls for distinct identities
\* leave one entry each.
C11_IndependentPendingEntries ==
    [][(req'.op = "generate_url" /\ resp'.kind = "url")
       => LET s == ParseQsFirst(resp'.url, "state")
          IN /\ s \notin DOMAIN oauth_handlers
             /\ DOMAIN oauth_handlers' = (DOMAIN oauth_handlers) \cup {s}
             /\ DOMAIN state_mapping' = (DOMAIN state_mapping) \cup {s}
             /\ \A k \in DOMAIN oauth_handlers :
                    oauth_handlers'[k] = oauth_handlers[k]
             /\ \A k \in DOMAIN state_mapping :
                    state_mapping'[k] = state_mapping[k]
             /\ oauth_handlers'[s] = <<exch'.handler, req'.ident>>
             /\ state_mapping'[s] = req'.ident]_vars

\* Two generate_url calls for two identities have left two pending entries.
C11_Witness ==
    /\ req.op = "generate_url" /\ resp.kind = "url"
    /\ \E s1, s2 \in DOMAIN oauth_handlers :
          /\ s1 # s2
          /\ oauth_handlers[s1][2] # oauth_handlers[s2][2]
          /\ oauth_handlers[s1][1] # oauth_handlers[s2][1]

\* The adapter's URL has a state parameter with a value.
CarriesState(url) ==
    \E i \in 1..Len(url) : url[i][1] = "state" /\ url[i][2] # ""

\* C12: when the adapter's URL carries no state, an authorised generate_url
\* answers 500, returns no URL and changes no table.
C12_NoStateIsAdapterError ==
    [][(/\ req'.op = "generate_url" /\ Authorized(req')
        /\ exch'.url /\ ~CarriesState(exch'.authurl))
       => (/\ resp'.http = 500 /\ resp'.kind = "detail"
           /\ resp'.url = NoUrl
           /\ issued' = issued
           /\ TablesUnchanged)]_vars

\* A generate_url failed on a URL without state while an entry is pending.
C12_Witness ==
    /\ req.op = "generate_url" /\ exch.url /\ ~CarriesState(exch.authurl)
    /\ resp.http = 500
    /\ oauth_handlers # EmptyDict

\* C13: a callback without error parameter whose code or state is missing
\* or empty returns the BadRequest body, calls no fetch_token and changes
\* no table.
C13_MissingCodeOrState ==
    [][(/\ req'.op = "callback"
        /\ ~Truthy(req'.error)
        /\ (req'.code \in {None, ""} \/ req'.tstate \in {None, ""}))
       => (/\ resp' = Response(200, "error", "Missing code or state")
           /\ ~fetching' /\ ~exch'.fetch
           /\ fetches' = fetches
           /\ TablesUnchanged)]_vars

\* BadRequest for a callback that has a code and an empty state, while an
\* entry is pending.
C13_Witness ==
    /\ req.op = "callback" /\ req.error = None
    /\ req.code = "XYZ" /\ req.tstate = ""
    /\ resp.val = "Missing code or state"
    /\ oauth_handlers # EmptyDict

\* The identities a URL was returned to.
Initiated == {issued[s] : s \in DOMAIN issued}

\* C14: an identity that generate_url never returned a URL for has no
\* session record, and get_session with the correct key answers pending
\* for it, whatever happened for other identities.
C14_NeverInitiatedIsPending ==
    /\ \A i \in Identities \ Initiated : i \notin DOMAIN session_store
    /\ (req.op = "get_session" /\ Authorized(req) /\ req.ident \notin Initiated)
          => resp = Response(200, "status", "pending")

\* get_session of a never initiated identity while another identity has a
\* session with a token.
C14_Witness ==
    /\ req.op = "get_session" /\ Authorized(req)
    /\ req.ident \notin Initiated
    /\ resp.val = "pending"
    /\ \E i \in DOMAIN session_store : session_store[i] # EmptyToken

\* C15: a get_session(I) with the correct key that follows a generate_url(I)
\* which returned a URL answers pending, also when I had an unclaimed
\* session of an earlier flow.
C15_InitiateMovesToPending ==
    [][(/\ req.op = "generate_url" /\ resp.kind = "url"
        /\ req'.op = "get_session" /\ Authorized(req')
        /\ req'.ident = req.ident)
       => resp' = Response(200, "status", "pending")]_vars

\* C16: get_session with the correct key answers ready with the stored
\* token exactly when session_store has a record of the identity, whatever
\* the stored token is, and pending otherwise.
C16_ReadyIffRecord ==
    (req.op = "get_session" /\ Authorized(req))
        => IF req.ident \in DOMAIN session_store
           THEN /\ resp.kind = "status" /\ resp.val = "ready"
                /\ resp.token = session_store[req.ident]
           ELSE resp = Response(200, "status", "pending")

\* C17: of the callbacks that present the same state, at most one gets the
\* pending entry and calls fetch_token; the entry it got is still there when
\* fetch_token returns; a callback that comes after it (however early it
\* arrived, it runs only when the first has returned) gets NotFound, and no
\* callback ends in an unhandled failure.
C17_OneCallbackGetsTheEntry ==
    /\ \A s \in IssuableStates : fetches[s] <= 1
    /\ fetching =>
          /\ req.tstate \in DOMAIN oauth_handlers
          /\ req.tstate \in DOMAIN state_mapping
    /\ (req.op = "callback" /\ ~fetching) => resp.http = 200
    /\ (/\ req.op = "callback" /\ ~fetching /\ ~exch.fetch
        /\ ~Truthy(req.error) /\ Truthy(req.code)
        /\ req.tstate \in IssuableStates)
       => (fetches[req.tstate] = 1 => IsNotFound(resp))

\* A second callback with a state whose first callback stored a session.
C17_Witness ==
    /\ req.op = "callback" /\ ~fetching /\ ~exch.fetch
    /\ IsNotFound(resp)
    /\ req.tstate \in DOMAIN issued
    /\ fetches[req.tstate] = 1
    /\ issued[req.tstate] \in DOMAIN session_store

\* C18: while the fetch_token call of one callback has not returned, the
\* handlers of other requests can run: generate_url and get_session for any
\* identity, and a callback with another state.
C18_ExchangeDoesNotBlock ==
    fetching =>
        /\ \A i \in Identities : ENABLED get_session(i, INTERNAL_API_KEY)
        /\ \A i \in Identities : ENABLED generate_auth_url(i, "wrong", "state")
        /\ \A st \in IssuableStates \ {req.tstate} :
              ENABLED callback("XYZ", st, None)

\* C19: session_store changes only when the fetch_token call of a callback
\* returns a token; the callback's state is one a URL was returned with to
\* an identity I, the exchange ran on the handler that generated that state,
\* and the change is that I's record becomes the returned token; no other
\* identity's record changes.
C19_SessionWrittenOnlyByOwnFlow ==
    [][session_store' # session_store
       => /\ req'.op = "callback" /\ exch'.fetch /\ exch'.ok
          /\ req'.tstate \in DOMAIN oauth_handlers
          /\ req'.tstate \in DOMAIN issued
          /\ StateNames[exch'.handler] = req'.tstate
          /\ LET i == issued[req'.tstate]
             IN /\ oauth_handlers[req'.tstate][2] = i
                /\ DOMAIN session_store' = (DOMAIN session_store) \cup {i}
                /\ session_store'[i] = exch'.token
                /\ \A j \in (DOMAIN session_store) \ {i} :
                       session_store'[j] = session_store[j]]_vars

\* The second handler's exchange has written a session while the other
\* identity holds a session with another token.
C19_Witness ==
    /\ Exchanged /\ exch.ok /\ exch.handler = 2
    /\ issued[req.tstate] \in DOMAIN session_store
    /\ \E j \in DOMAIN session_store :
          /\ j # issued[req.tstate]
          /\ session_store[j] # session_store[issued[req.tstate]]

\* C20: oauth_handlers and state_mapping have the same keys and agree on
\* the identity of each key, so a callback whose fetch_token returned a
\* token deletes both entries and answers with the success message.
C20_PendingTablesAgree ==
    /\ DOMAIN oauth_handlers = DOMAIN state_mapping
    /\ \A k \in DOMAIN oauth_handlers : oauth_handlers[k][2] = state_mapping[k]
    /\ (Exchanged /\ exch.ok) =>
          /\ resp = Response(200, "message",
                "Login successful! You can close this window and return to the bot.")
          /\ req.tstate \notin DOMAIN oauth_handlers
          /\ req.tstate \notin DOMAIN state_mapping

\* A successful callback has deleted its entries while another entry stays.
C20_Witness ==
    /\ Exchanged /\ exch.ok /\ resp.kind = "message"
    /\ oauth_handlers # EmptyDict
    /\ DOMAIN state_mapping = DOMAIN oauth_handlers
====
